---- MODULE Spec2Model ----
(***************************************************************************)
(* The truenas_incus_instance module: runs of main() against the TrueNAS   *)
(* REST backend, through RestApiClient / ApiResponse.  Each backend call   *)
(* is one step of a run; the answer to it is chosen by the environment.    *)
(* Python dicts are records whose missing keys hold None.                  *)
(*                                                                         *)
(* The backend is the environment.  It is taken to keep its API contract:  *)
(* a list call that succeeds carries the instance collection (a JSON list  *)
(* of records with id, name and status), an accepted create carries the    *)
(* created record or a body that does not parse, a 2xx answer to create or *)
(* delete means the instance was created or removed, and ids are unique.   *)
(* Start, stop and restart take effect later, as status changes.           *)
(*                                                                         *)
(* Three specifications: Spec, the runs of truenas_incus_instance;         *)
(* SpecTransport, RestApiClient.call for every outcome of curl; SpecExec,  *)
(* a run of truenas_incus_exec, whose source is not in the repository      *)
(* snapshot and which is written from its specification and unit tests.    *)
(* LiveSpec is Spec with weak fairness on the steps of a run, for the      *)
(* termination property.                                                   *)
(***************************************************************************)
EXTENDS Integers, Sequences, FiniteSets, TLC

VARIABLES
    transport,  \* "curl": RestApiClient.call; "mock": the tests' Mock api_client
    instances,  \* the backend's instance collection, in list order
    params,     \* module.params and module.check_mode of the current run
    runs,       \* number of invocations of main() so far
    prevPresent,\* "real" / "check": the previous run was a `present` run that
                \* reached exit_json (check: in check mode) and nothing has changed
                \* the backend since it ended; "no" otherwise
    pc,         \* position of the current run inside main()
    instance,   \* main's local `instance`
    found,      \* what the initial get_instance returned
    changed,    \* main's local `changed`
    result,     \* the record handed to exit_json
    msg,        \* the message handed to fail_json
    exc,        \* the uncaught exception, when the run died of one
    calls,      \* api_client.call invocations of this run, in order
    last_status,\* status_code of the latest response to a lifecycle call
    target,     \* desired_state argument of the running wait_for_state
    elapsed,    \* time.time() - start_time inside wait_for_state
    sleeps,     \* number of time.sleep(2) calls of this run
    waited,     \* what wait_for_state returned: "none" (not called/returned yet)
    curl,       \* (rc, stdout, stderr) of the curl process RestApiClient.call ran
    last_response, \* the ApiResponse of that call, or of the exec module's latest
                \* call of the exec endpoint
    paths,      \* the paths that exist inside the instance (exec module)
    xres,       \* what the latest execute_command returned (exec module)
    exists      \* what check_path_exists returned for the `creates` and the
                \* `removes` path: "none" (not called), "True", "False"

\* the state of a run of truenas_incus_instance
mainVars == <<transport, instances, params, runs, prevPresent, pc, instance, found,
              changed, result, msg, exc, calls, last_status, target, elapsed,
              sleeps, waited>>

\* the state of RestApiClient.call taken on its own
transportVars == <<curl, last_response>>

\* the state the exec module adds
execVars == <<paths, xres, exists>>

vars == <<mainVars, transportVars, execVars>>

----------------------------------------------------------------------------
(* Bounds *)

MaxRuns == 2

\* time.sleep(2)
PollInterval == 2

\* the largest timeout tried (seconds); the module's default is 60
MaxTimeout == 3

Timeouts == {0, MaxTimeout}

\* seconds one lookup inside the poller may take
LookupCosts == {0, 1}

Ids == {"1", "2", "3"}
\* "web" is the name every run manages; "db" is another instance
Names == {"web", "db"}
Statuses == {"Running", "Stopped", "Starting"}

----------------------------------------------------------------------------
(* Python values *)

None == "None"

\* {} (and the None that get_instance returns: both are falsy, and main only
\* tests truthiness before it reads a key)
EmptyDict == [id |-> None, name |-> None, status |-> None]

Truthy(d) == d # EmptyDict

\* dict.get(key)
Name(d) == d.name
Status(d) == d.status

\* what response.json() hands back: the instance collection (a list of dicts),
\* or a dict: an instance record, or the {} of a body that does not parse
JsonList(items) == [kind |-> "list", items |-> items, obj |-> EmptyDict]
JsonDict(d) == [kind |-> "dict", items |-> << >>, obj |-> d]
EmptyJson == JsonDict(EmptyDict)

----------------------------------------------------------------------------
(* rest_api.py *)

CurlExitCodes == {0, 22, 7}

Stderrs == {"", "curl: (22) error: 404", "curl: (22) error: 409",
            "curl: (22) error: 500", "curl: (22) error: 403 (was 401)",
            "curl: (22) error: 418", "curl: (7) connection refused"}

\* `code in self.stderr`, for the stderr texts above
InStderr(code, stderr) ==
    code \in (CASE stderr = "curl: (22) error: 404" -> {"404"}
                [] stderr = "curl: (22) error: 409" -> {"409"}
                [] stderr = "curl: (22) error: 500" -> {"500"}
                [] stderr = "curl: (22) error: 403 (was 401)" -> {"403", "401"}
                [] OTHER -> {})

\* a status_code that looks for 403 before 401
status_code_403_first(rc, stderr) ==
    IF rc = 0 THEN 200
    ELSE IF rc = 22 THEN
        IF InStderr("404", stderr) THEN 404
        ELSE IF InStderr("403", stderr) THEN 403
        ELSE IF InStderr("401", stderr) THEN 401
        ELSE IF InStderr("409", stderr) THEN 409
        ELSE IF InStderr("500", stderr) THEN 500
        ELSE 400
    ELSE 500

\* a status_code that hands the exit code of a failed connection through
status_code_raw(rc, stderr) ==
    IF rc = 0 THEN 200
    ELSE IF rc = 22 THEN
        IF InStderr("404", stderr) THEN 404
        ELSE IF InStderr("401", stderr) THEN 401
        ELSE IF InStderr("403", stderr) THEN 403
        ELSE IF InStderr("409", stderr) THEN 409
        ELSE IF InStderr("500", stderr) THEN 500
        ELSE 400
    ELSE rc

status_code(rc, stderr) ==
    IF rc = 0 THEN 200
    ELSE IF rc = 22 THEN
        IF InStderr("404", stderr) THEN 404
        ELSE IF InStderr("401", stderr) THEN 401
        ELSE IF InStderr("403", stderr) THEN 403
        ELSE IF InStderr("409", stderr) THEN 409
        ELSE IF InStderr("500", stderr) THEN 500
        ELSE 400
    ELSE 500

\* curl's stdout: its text, and the value json.loads gives for it when it parses
Stdouts(body) ==
    { [raw |-> "", parses |-> FALSE, val |-> EmptyJson],
      [raw |-> "<html>", parses |-> FALSE, val |-> EmptyJson],
      [raw |-> "<json>", parses |-> TRUE, val |-> body] }

json(stdout) == IF stdout.parses THEN stdout.val ELSE EmptyJson

text(stdout, stderr) == IF stdout.raw # "" THEN stdout.raw ELSE stderr

ApiResponse(rc, stdout, stderr) ==
    [status_code |-> status_code(rc, stderr),
     json |-> json(stdout),
     text |-> text(stdout, stderr)]

\* the statuses the unit tests' mocked responses carry, and their neighbours
MockStatus == {200, 201, 202, 204, 400, 404, 409, 500}

\* every response api_client.call can return when the backend's body is one of bodies
Responses(bodies) ==
    IF transport = "curl"
    THEN { ApiResponse(rc, so, se) :
             rc \in CurlExitCodes,
             so \in UNION { Stdouts(b) : b \in bodies },
             se \in Stderrs }
    ELSE { [status_code |-> s, json |-> b, text |-> "Bad Request"] :
             s \in MockStatus, b \in bodies }

\* no curl process has run, no response has been returned
NoCurl == [rc |-> -1, stdout |-> "", stderr |-> ""]
NoResponse == [status_code |-> 0, json |-> EmptyJson, text |-> ""]

----------------------------------------------------------------------------
(* truenas_incus_instance.py: helpers *)

\* a lookup that lets the last element of the name win
LastNamed(items, name) ==
    IF \E i \in 1..Len(items) : Name(items[i]) = name
    THEN items[CHOOSE i \in 1..Len(items) :
                 /\ Name(items[i]) = name
                 /\ \A j \in (i + 1)..Len(items) : Name(items[j]) # name]
    ELSE EmptyDict

RECURSIVE FirstNamed(_, _)
FirstNamed(items, name) ==
    IF items = << >> THEN EmptyDict
    ELSE IF Name(Head(items)) = name THEN Head(items)
    ELSE FirstNamed(Tail(items), name)

\* a get_instance that reads the body whatever the status of the list call
get_instance_unchecked(response, name) == FirstNamed(response.json.items, name)

\* get_instance, after the GET: the first element named `name`, or None
\* (iterating the {} of an unparseable body yields nothing)
get_instance(response, name) ==
    IF response.status_code = 200
    THEN FirstNamed(response.json.items, name)
    ELSE EmptyDict

\* the GET delivered the collection
Listed(response) == response.status_code = 200 /\ response.json.kind = "list"

create_accepted(sc) == sc \in {200, 201}
delete_accepted(sc) == sc \in {200, 204}

\* start_instance that takes 409 for a failure, as restart_instance does
start_rejects_conflict(sc) == sc \in {200, 202}

start_accepted(sc) == sc \in {200, 202, 409}
stop_accepted(sc) == sc \in {200, 202, 409}
restart_accepted(sc) == sc \in {200, 202}

\* a failure message that leaves the response text out
FailedToWithoutText(what, response) == <<"Failed to " \o what \o " instance: ", "">>

\* the argument of fail_json
FailedTo(what, response) == <<"Failed to " \o what \o " instance: ", response.text>>
DoesNotExist(name) == <<"Instance ", name, " does not exist">>
KeyRequired == <<"api_key is required for REST API access", "">>
NoMsg == <<"", "">>

\* module.params['config']: unset (None), or a dict whose boot.autostart is v
NoConfig == [isNone |-> TRUE, autostart |-> None]
Config(v) == [isNone |-> FALSE, autostart |-> v]
Configs == {NoConfig, Config(None), Config("true"), Config("false")}

\* one api_client.call: the operation, the instance id in its path, and whether
\* its caller took the response for a success
Call(op, id, ok) == [op |-> op, id |-> id, ok |-> ok]

Mutating == {"create", "start", "stop", "restart", "delete"}

IsTerminal(p) == p \in {"exit", "fail", "crash"}

----------------------------------------------------------------------------
(* truenas_incus_instance.py: main() *)

States == {"present", "absent", "started", "stopped", "restarted"}

\* main reads config only under state=present (create payload, auto-start test)
\* and timeout only under started / stopped / restarted, so each is varied
\* only where it is read
ParamSets ==
    { p \in [name : {"web"}, state : States, check_mode : BOOLEAN, config : Configs,
             timeout : Timeouts, api_key : {None, "", "secret"}] :
        /\ p.state # "present" => p.config = NoConfig
        /\ p.state \in {"present", "absent"} => p.timeout = MaxTimeout }

\* `found` before the initial lookup has returned
NotLooked == [id |-> "?", name |-> "?", status |-> "?"]

Go(p, ch) == [pc |-> p, changed |-> ch]

\* Mutate with the check_mode test dropped
MutateIgnoringCheckMode(check_mode, act) == Go(act, FALSE)

\* `if not module.check_mode: <act> else: changed = True`: where main
\* continues, and the value `changed` holds there
Mutate(check_mode, act) ==
    IF ~check_mode THEN Go(act, FALSE) ELSE Go("exit", TRUE)

\* StatusDiffers that never sees the instance in the wanted status
StatusAlwaysDiffers(inst, wanted) == TRUE

\* instance.get('status') != wanted
StatusDiffers(inst, wanted) == Status(inst) # wanted

\* PresentBranch without the test that the instance is missing
PresentBranchAlwaysCreates(inst, check_mode) == Mutate(check_mode, "create")

PresentBranch(inst, check_mode) ==
    IF ~Truthy(inst) THEN Mutate(check_mode, "create") ELSE Go("exit", FALSE)

\* AbsentBranch that stops the instance only when it is not reported Stopped
AbsentBranchStopIfRunning(inst, check_mode) ==
    IF Truthy(inst)
    THEN Mutate(check_mode, IF Status(inst) = "Stopped" THEN "del_delete" ELSE "del_stop")
    ELSE Go("exit", FALSE)

\* delete_instance begins with its stop_instance call
AbsentBranch(inst, check_mode) ==
    IF Truthy(inst) THEN Mutate(check_mode, "del_stop") ELSE Go("exit", FALSE)

StartedBranch(inst, check_mode) ==
    IF Truthy(inst)
    THEN (IF StatusDiffers(inst, "Running")
          THEN Mutate(check_mode, "start") ELSE Go("exit", FALSE))
    ELSE Go("fail", FALSE)

StoppedBranch(inst, check_mode) ==
    IF Truthy(inst)
    THEN (IF StatusDiffers(inst, "Stopped")
          THEN Mutate(check_mode, "stop") ELSE Go("exit", FALSE))
    ELSE Go("fail", FALSE)

\* RestartedBranch that leaves a Running instance alone
RestartedBranchIfNotRunning(inst, check_mode) ==
    IF Truthy(inst)
    THEN (IF StatusDiffers(inst, "Running")
          THEN Mutate(check_mode, "restart") ELSE Go("exit", FALSE))
    ELSE Go("fail", FALSE)

\* RestartedBranch without the test that the instance exists
RestartedBranchUnchecked(inst, check_mode) == Mutate(check_mode, "restart")

RestartedBranch(inst, check_mode) ==
    IF Truthy(inst) THEN Mutate(check_mode, "restart") ELSE Go("fail", FALSE)

\* MainBranch whose dry run of `restarted` reports no change
MainBranchQuietRestart(state, inst, check_mode) ==
    CASE state = "present" -> PresentBranch(inst, check_mode)
      [] state = "absent" -> AbsentBranch(inst, check_mode)
      [] state = "started" -> StartedBranch(inst, check_mode)
      [] state = "stopped" -> StoppedBranch(inst, check_mode)
      [] state = "restarted" ->
            IF check_mode /\ Truthy(inst) THEN Go("exit", FALSE)
            ELSE RestartedBranch(inst, check_mode)

\* the branch main takes on the looked-up instance
MainBranch(state, inst, check_mode) ==
    CASE state = "present" -> PresentBranch(inst, check_mode)
      [] state = "absent" -> AbsentBranch(inst, check_mode)
      [] state = "started" -> StartedBranch(inst, check_mode)
      [] state = "stopped" -> StoppedBranch(inst, check_mode)
      [] state = "restarted" -> RestartedBranch(inst, check_mode)

\* result['instance'] as main leaves it
ResultInstance(state, inst) ==
    IF state = "absent" THEN EmptyDict ELSE inst

\* AfterCreate that tests boot.autostart against the boolean True
AfterCreateBooleanAutostart(inst, config) ==
    IF ~Truthy(inst) THEN "exit"
    ELSE IF config.isNone THEN "AttributeError"
    ELSE "exit"

\* after an accepted create: `if instance and
\* module.params.get('config', {}).get('boot.autostart') == 'true'`.
\* params always holds the key 'config', so the default {} of the first .get
\* is never used, an unset config is None, and None has no .get
AfterCreate(inst, config) ==
    IF ~Truthy(inst) THEN "exit"
    ELSE IF config.isNone THEN "AttributeError"
    ELSE IF config.autostart = "true" THEN "autostart"
    ELSE "exit"

\* the target wait_for_state is called with after start / stop / restart
WaitTarget(op) == IF op = "stop" THEN "Stopped" ELSE "Running"

ExitJson(inst, ch) ==
    /\ pc' = "exit"
    /\ result' = [changed |-> ch, instance |-> inst]
    /\ UNCHANGED <<msg, exc>>

FailJson(m) ==
    /\ pc' = "fail"
    /\ msg' = m
    /\ UNCHANGED <<result, exc>>

Raise(e) ==
    /\ pc' = "crash"
    /\ exc' = e
    /\ UNCHANGED <<result, msg>>

Continue(p) ==
    /\ pc' = p
    /\ UNCHANGED <<result, msg, exc>>

NoResult == [changed |-> FALSE, instance |-> EmptyDict]

\* a constructor that takes any key, a missing one too
ConstructWithoutKeyTest ==
    /\ pc = "init"
    /\ Continue("lookup")
    /\ UNCHANGED <<transport, instances, params, runs, prevPresent, instance, found,
                   changed, calls, last_status, target, elapsed, sleeps, waited>>
    /\ UNCHANGED <<transportVars, execVars>>

\* RestApiClient(...): fail_json when the key is missing or empty
Construct ==
    /\ pc = "init"
    /\ IF params.api_key \in {None, ""} THEN FailJson(KeyRequired) ELSE Continue("lookup")
    /\ UNCHANGED <<transport, instances, params, runs, prevPresent, instance, found,
                   changed, calls, last_status, target, elapsed, sleeps, waited>>
    /\ UNCHANGED <<transportVars, execVars>>

\* instance = get_instance(api_client, name), and the branch on state
Lookup ==
    /\ pc = "lookup"
    /\ \E response \in Responses({JsonList(instances)}) :
        LET inst == get_instance(response, params.name)
            b == MainBranch(params.state, inst, params.check_mode)
        IN  /\ calls' = Append(calls, Call("list", "-", Listed(response)))
            /\ instance' = inst
            /\ found' = inst
            /\ changed' = b.changed
            /\ CASE b.pc = "exit" ->
                      ExitJson(ResultInstance(params.state, inst), b.changed)
                 [] b.pc = "fail" -> FailJson(DoesNotExist(params.name))
                 [] OTHER -> Continue(b.pc)
    /\ UNCHANGED <<transport, instances, params, runs, prevPresent, last_status,
                   target, elapsed, sleeps, waited>>
    /\ UNCHANGED <<transportVars, execVars>>

----------------------------------------------------------------------------
(* The backend behind the REST API *)

IdOrder == <<"1", "2", "3">>

UsedIds == { instances[i].id : i \in 1..Len(instances) }

HasFreeId == UsedIds # Ids

\* the id the backend gives the next instance it creates
FreshId == IdOrder[CHOOSE i \in 1..Len(IdOrder) :
                     /\ IdOrder[i] \notin UsedIds
                     /\ \A j \in 1..(i - 1) : IdOrder[j] \in UsedIds]

\* a 2xx answer means the backend carried the request out
Is2xx(sc) == sc \in {200, 201, 202, 204}

RECURSIVE Without(_, _)
Without(items, id) ==
    IF items = << >> THEN << >>
    ELSE IF Head(items).id = id THEN Without(Tail(items), id)
    ELSE <<Head(items)>> \o Without(Tail(items), id)

----------------------------------------------------------------------------
(* main(), continued: the lifecycle calls *)

\* changed, instance = create_instance(module, api_client), then the auto-start test
Create ==
    /\ pc = "create"
    /\ LET new == [id |-> FreshId, name |-> params.name, status |-> "Stopped"]
           bodies == IF HasFreeId
                     THEN {JsonDict(new), EmptyJson}
                     ELSE {EmptyJson}
       IN \E response \in Responses(bodies) :
            /\ Is2xx(response.status_code) => HasFreeId
            /\ calls' = Append(calls, Call("create", "-",
                                           create_accepted(response.status_code)))
            /\ last_status' = response.status_code
            /\ instances' = IF Is2xx(response.status_code)
                            THEN Append(instances, new) ELSE instances
            /\ IF create_accepted(response.status_code)
               THEN LET inst == response.json.obj
                        nxt == AfterCreate(inst, params.config)
                    IN  /\ changed' = TRUE
                        /\ instance' = inst
                        /\ CASE nxt = "exit" -> ExitJson(inst, TRUE)
                             [] nxt = "autostart" -> Continue("autostart")
                             [] OTHER -> Raise(nxt)
               ELSE /\ FailJson(FailedTo("create", response))
                    /\ UNCHANGED <<changed, instance>>
    /\ UNCHANGED <<transport, params, runs, prevPresent, found, target, elapsed,
                   sleeps, waited>>
    /\ UNCHANGED <<transportVars, execVars>>

\* an auto-start that removes the created instance again when it is rejected
AutoStartWithRollback ==
    /\ pc = "autostart"
    /\ \E response \in Responses({EmptyJson}) :
        /\ last_status' = response.status_code
        /\ IF start_accepted(response.status_code)
           THEN /\ calls' = Append(calls, Call("start", instance.id, TRUE))
                /\ ExitJson(instance, changed)
                /\ UNCHANGED instances
           ELSE /\ calls' = calls \o <<Call("start", instance.id, FALSE),
                                       Call("delete", instance.id, TRUE)>>
                /\ instances' = Without(instances, instance.id)
                /\ FailJson(FailedTo("start", response))
    /\ UNCHANGED <<transport, params, runs, prevPresent, instance, found,
                   changed, target, elapsed, sleeps, waited>>
    /\ UNCHANGED <<transportVars, execVars>>

\* start_instance(module, api_client, instance['id']) after the create
AutoStart ==
    /\ pc = "autostart"
    /\ \E response \in Responses({EmptyJson}) :
        /\ calls' = Append(calls, Call("start", instance.id,
                                       start_accepted(response.status_code)))
        /\ last_status' = response.status_code
        /\ IF start_accepted(response.status_code)
           THEN ExitJson(instance, changed)
           ELSE FailJson(FailedTo("start", response))
    /\ UNCHANGED <<transport, instances, params, runs, prevPresent, instance, found,
                   changed, target, elapsed, sleeps, waited>>
    /\ UNCHANGED <<transportVars, execVars>>

\* delete_instance: stop_instance(module, api_client, instance_id) first
DeleteStop ==
    /\ pc = "del_stop"
    /\ \E response \in Responses({EmptyJson}) :
        /\ calls' = Append(calls, Call("stop", instance.id,
                                       stop_accepted(response.status_code)))
        /\ last_status' = response.status_code
        /\ IF stop_accepted(response.status_code)
           THEN Continue("del_delete")
           ELSE FailJson(FailedTo("stop", response))
    /\ UNCHANGED <<transport, instances, params, runs, prevPresent, instance, found,
                   changed, target, elapsed, sleeps, waited>>
    /\ UNCHANGED <<transportVars, execVars>>

\* delete_instance: the DELETE, and changed = its return value
Delete ==
    /\ pc = "del_delete"
    /\ \E response \in Responses({EmptyJson}) :
        /\ calls' = Append(calls, Call("delete", instance.id,
                                       delete_accepted(response.status_code)))
        /\ last_status' = response.status_code
        /\ instances' = IF Is2xx(response.status_code)
                        THEN Without(instances, instance.id) ELSE instances
        /\ IF delete_accepted(response.status_code)
           THEN /\ changed' = TRUE
                /\ ExitJson(ResultInstance(params.state, instance), TRUE)
           ELSE /\ FailJson(FailedTo("delete", response))
                /\ UNCHANGED changed
    /\ UNCHANGED <<transport, params, runs, prevPresent, instance, found, target,
                   elapsed, sleeps, waited>>
    /\ UNCHANGED <<transportVars, execVars>>

\* changed = <op>_instance(module, api_client, instance['id']) returned or
\* called fail_json; on success main goes on to
\* wait_for_state(api_client, name, target, timeout)
Lifecycle(op, response, accepted) ==
    /\ calls' = Append(calls, Call(op, instance.id, accepted))
    /\ last_status' = response.status_code
    /\ IF accepted
       THEN /\ changed' = TRUE
            /\ target' = WaitTarget(op)
            /\ elapsed' = 0
            /\ Continue("wait")
       ELSE /\ FailJson(FailedTo(op, response))
            /\ UNCHANGED <<changed, target, elapsed>>
    /\ UNCHANGED <<transport, instances, params, runs, prevPresent, instance, found,
                   sleeps, waited>>
    /\ UNCHANGED <<transportVars, execVars>>

Start ==
    /\ pc = "start"
    /\ \E response \in Responses({EmptyJson}) :
        Lifecycle("start", response, start_accepted(response.status_code))

Stop ==
    /\ pc = "stop"
    /\ \E response \in Responses({EmptyJson}) :
        Lifecycle("stop", response, stop_accepted(response.status_code))

Restart ==
    /\ pc = "restart"
    /\ \E response \in Responses({EmptyJson}) :
        Lifecycle("restart", response, restart_accepted(response.status_code))

\* a run that returns the record the poller fetched last
WaitPollReturningFetched ==
    /\ pc = "wait"
    /\ elapsed < params.timeout
    /\ \E response \in Responses({JsonList(instances)}), cost \in LookupCosts :
        LET inst == get_instance(response, params.name)
        IN  /\ calls' = Append(calls, Call("list", "-", Listed(response)))
            /\ IF Truthy(inst) /\ Status(inst) = target
               THEN /\ waited' = "True"
                    /\ elapsed' = elapsed + cost
                    /\ ExitJson(ResultInstance(params.state, inst), changed)
                    /\ UNCHANGED sleeps
               ELSE /\ sleeps' = sleeps + 1
                    /\ elapsed' = elapsed + cost + PollInterval
                    /\ Continue("wait")
                    /\ UNCHANGED waited
    /\ UNCHANGED <<transport, instances, params, runs, prevPresent, instance, found,
                   changed, last_status, target>>
    /\ UNCHANGED <<transportVars, execVars>>

\* a poller that returns True for an instance of the name, whatever its status
WaitPollAnyStatus ==
    /\ pc = "wait"
    /\ elapsed < params.timeout
    /\ \E response \in Responses({JsonList(instances)}), cost \in LookupCosts :
        LET inst == get_instance(response, params.name)
        IN  /\ calls' = Append(calls, Call("list", "-", Listed(response)))
            /\ IF Truthy(inst)
               THEN /\ waited' = "True"
                    /\ elapsed' = elapsed + cost
                    /\ ExitJson(ResultInstance(params.state, instance), changed)
                    /\ UNCHANGED sleeps
               ELSE /\ sleeps' = sleeps + 1
                    /\ elapsed' = elapsed + cost + PollInterval
                    /\ Continue("wait")
                    /\ UNCHANGED waited
    /\ UNCHANGED <<transport, instances, params, runs, prevPresent, instance, found,
                   changed, last_status, target>>
    /\ UNCHANGED <<transportVars, execVars>>

\* wait_for_state: one turn of the loop (the lookup, then return True or sleep)
WaitPoll ==
    /\ pc = "wait"
    /\ elapsed < params.timeout
    /\ \E response \in Responses({JsonList(instances)}), cost \in LookupCosts :
        LET inst == get_instance(response, params.name)
        IN  /\ calls' = Append(calls, Call("list", "-", Listed(response)))
            /\ IF Truthy(inst) /\ Status(inst) = target
               THEN /\ waited' = "True"
                    /\ elapsed' = elapsed + cost
                    /\ ExitJson(ResultInstance(params.state, instance), changed)
                    /\ UNCHANGED sleeps
               ELSE /\ sleeps' = sleeps + 1
                    /\ elapsed' = elapsed + cost + PollInterval
                    /\ Continue("wait")
                    /\ UNCHANGED waited
    /\ UNCHANGED <<transport, instances, params, runs, prevPresent, instance, found,
                   changed, last_status, target>>
    /\ UNCHANGED <<transportVars, execVars>>

\* a main that turns the poller's False into fail_json
WaitTimeoutFatal ==
    /\ pc = "wait"
    /\ elapsed >= params.timeout
    /\ waited' = "False"
    /\ FailJson(<<"Timed out waiting for instance ", params.name>>)
    /\ UNCHANGED <<transport, instances, params, runs, prevPresent, instance, found,
                   changed, calls, last_status, target, elapsed, sleeps>>
    /\ UNCHANGED <<transportVars, execVars>>

\* wait_for_state: the loop condition fails, return False; main ignores it
WaitTimeout ==
    /\ pc = "wait"
    /\ elapsed >= params.timeout
    /\ waited' = "False"
    /\ ExitJson(ResultInstance(params.state, instance), changed)
    /\ UNCHANGED <<transport, instances, params, runs, prevPresent, instance, found,
                   changed, calls, last_status, target, elapsed, sleeps>>
    /\ UNCHANGED <<transportVars, execVars>>

----------------------------------------------------------------------------
(* truenas_incus_exec: execute_command and check_path_exists, as the module's *)
(* specification (Remote Exec) and its unit tests give them                   *)

\* the body of an answer of the exec endpoint: the command's return code and
\* its output
ExecJson(ret, out, err) ==
    [kind |-> "exec", items |-> << >>, obj |-> EmptyDict,
     ret |-> ret, stdout |-> out, stderr |-> err]

ExecResult(rc, out, err) == [rc |-> rc, stdout |-> out, stderr |-> err]

NoExecResult == ExecResult(-1, "", "")

\* an execute_command that passes the HTTP failure off as a command that ran
execute_command_hiding_failure(resp) ==
    IF resp.status_code = 200
    THEN ExecResult(resp.json.ret, resp.json.stdout, resp.json.stderr)
    ELSE ExecResult(0, "", resp.text)

\* execute_command, after the POST to /virt/instance/<id>/exec: the command's
\* result on status 200, else a result made up of return code 1, no stdout
\* and the response text as stderr
execute_command(resp) ==
    IF resp.status_code = 200
    THEN ExecResult(resp.json.ret, resp.json.stdout, resp.json.stderr)
    ELSE ExecResult(1, "", resp.text)

\* check_path_exists, after execute_command(..., "test -e '<path>'", timeout=10)
check_path_exists(res) == res.rc = 0

NotChecked == [creates |-> "none", removes |-> "none"]

PyBool(b) == IF b THEN "True" ELSE "False"

----------------------------------------------------------------------------
(* The environment *)

\* The backend changes the status of an instance, on its own or for another
\* client.  A run reads the collection only in its lookups, and there only the
\* elements of its own name, so the change is taken where a lookup is next:
\* before a run's first lookup and inside the poller.
BackendChange ==
    /\ pc \in {"init", "wait"}
    /\ \E i \in 1..Len(instances), s \in Statuses :
        /\ instances[i].name = params.name
        /\ s # instances[i].status
        /\ instances' = [instances EXCEPT ![i].status = s]
    /\ prevPresent' = "no"
    /\ UNCHANGED <<transport, params, runs, pc, instance, found, changed, result,
                   msg, exc, calls, last_status, target, elapsed, sleeps, waited>>
    /\ UNCHANGED <<transportVars, execVars>>

\* the playbook invokes the module again
NewRun ==
    /\ IsTerminal(pc)
    /\ runs < MaxRuns
    /\ runs' = runs + 1
    /\ params' \in ParamSets
    /\ prevPresent' = IF pc = "exit" /\ params.state = "present"
                      THEN (IF params.check_mode THEN "check" ELSE "real")
                      ELSE "no"
    /\ pc' = "init"
    /\ instance' = EmptyDict
    /\ found' = NotLooked
    /\ changed' = FALSE
    /\ result' = NoResult
    /\ msg' = NoMsg
    /\ exc' = None
    /\ calls' = << >>
    /\ last_status' = 0
    /\ target' = None
    /\ elapsed' = 0
    /\ sleeps' = 0
    /\ waited' = "none"
    /\ UNCHANGED <<transport, instances>>
    /\ UNCHANGED <<transportVars, execVars>>

\* the instances the backend may hold of each name, before the first run
Instances(id) ==
    { [id |-> id, name |-> n, status |-> s] : n \in Names, s \in Statuses } \
    { [id |-> id, name |-> "db", status |-> s] : s \in Statuses \ {"Stopped"} }

InitialCollections ==
    {<< >>}
    \cup { <<a>> : a \in Instances("1") }
    \cup { <<a, b>> : a \in Instances("1"), b \in Instances("2") }

Init ==
    /\ transport \in {"curl", "mock"}
    /\ instances \in InitialCollections
    /\ params \in ParamSets
    /\ runs = 1
    /\ prevPresent = "no"
    /\ pc = "init"
    /\ instance = EmptyDict
    /\ found = NotLooked
    /\ changed = FALSE
    /\ result = NoResult
    /\ msg = NoMsg
    /\ exc = None
    /\ calls = << >>
    /\ last_status = 0
    /\ target = None
    /\ elapsed = 0
    /\ sleeps = 0
    /\ waited = "none"
    /\ curl = NoCurl
    /\ last_response = NoResponse
    /\ paths = {}
    /\ xres = NoExecResult
    /\ exists = NotChecked

Next ==
    \/ Construct
    \/ Lookup
    \/ Create
    \/ AutoStart
    \/ DeleteStop
    \/ Delete
    \/ Start
    \/ Stop
    \/ Restart
    \/ WaitPoll
    \/ WaitTimeout
    \/ BackendChange
    \/ NewRun

Spec == Init /\ [][Next]_vars

----------------------------------------------------------------------------
(* RestApiClient.call on its own, for every outcome of the curl process *)

\* curl's exit codes: success, 22 (HTTP error), and the connection-level
\* failures 6 (resolve), 7 (connect), 28 (timeout), 35 (TLS), 60 (certificate)
AllExitCodes == CurlExitCodes \cup {6, 28, 35, 60}

\* the state of a run that has not begun
Idle ==
    /\ runs = 1
    /\ prevPresent = "no"
    /\ instance = EmptyDict
    /\ found = NotLooked
    /\ changed = FALSE
    /\ msg = NoMsg
    /\ exc = None
    /\ calls = << >>
    /\ last_status = 0
    /\ target = None
    /\ elapsed = 0
    /\ sleeps = 0
    /\ waited = "none"

InitTransport ==
    /\ Idle
    /\ transport = "curl"
    /\ instances = << >>
    /\ params = [name |-> "web"]
    /\ pc = "call"
    /\ result = NoResult
    /\ curl = NoCurl
    /\ last_response = NoResponse
    /\ paths = {}
    /\ xres = NoExecResult
    /\ exists = NotChecked

\* rc, stdout, stderr = self.module.run_command(cmd, check_rc=False);
\* return ApiResponse(rc, stdout, stderr)
call ==
    /\ pc = "call"
    /\ \E rc \in AllExitCodes, stdout \in Stdouts(JsonList(instances)),
          stderr \in Stderrs :
        /\ curl' = [rc |-> rc, stdout |-> stdout.raw, stderr |-> stderr]
        /\ last_response' = ApiResponse(rc, stdout, stderr)
    /\ UNCHANGED <<mainVars, execVars>>

NextTransport == call

SpecTransport == InitTransport /\ [][NextTransport]_vars

----------------------------------------------------------------------------
(* truenas_incus_exec: main(), as the module's specification (Remote Exec)   *)
(* and its unit tests give it.  The exec endpoint is taken to keep its       *)
(* contract: an answer with status 200 carries the result of the command,    *)
(* and `test -e` returns 0 exactly when the path exists inside the instance. *)

\* the guard paths of the playbook
Paths == {"/made", "/lock"}

\* return codes of the user's command
ReturnCodes == {0, 1, 2}

\* module.params and module.check_mode; a check-mode run has no guards
ExecParamSets ==
    { [name |-> "web", creates |-> c, removes |-> r, check_mode |-> FALSE] :
        c \in {None, "/made"}, r \in {None, "/lock"} }
    \cup { [name |-> "web", creates |-> None, removes |-> None, check_mode |-> TRUE] }

\* the collections the exec module is run against
ExecCollections ==
    { << >>,
      <<[id |-> "1", name |-> "web", status |-> "Running"]>>,
      <<[id |-> "1", name |-> "db", status |-> "Stopped"],
        [id |-> "2", name |-> "web", status |-> "Running"]>> }

\* the answers of the exec endpoint to a command that returns ret
ExecResponses(ret) ==
    { r \in Responses({ExecJson(ret, "out", "")}) :
        r.status_code = 200 => r.json.kind = "exec" }

\* the return code of `test -e '<path>'` inside the instance
TestE(path) == IF path \in paths THEN 0 ELSE 1

NoExit == [changed |-> FALSE, msg |-> NoMsg]

\* module.exit_json(changed=..., msg=...)
ExecExitJson(ch, m) ==
    /\ pc' = "exit"
    /\ result' = [changed |-> ch, msg |-> m]
    /\ UNCHANGED <<msg, exc>>

InitExec ==
    /\ Idle
    /\ transport \in {"curl", "mock"}
    /\ instances \in ExecCollections
    /\ params \in ExecParamSets
    /\ pc = "get_instance_id"
    /\ result = NoExit
    /\ curl = NoCurl
    /\ last_response = NoResponse
    /\ paths \in SUBSET Paths
    /\ xres = NoExecResult
    /\ exists = NotChecked

\* instance_id = get_instance_id(api_client, name); fail_json when it is None;
\* in check mode exit_json(changed=True, msg="... check mode")
GetInstanceId ==
    /\ pc = "get_instance_id"
    /\ \E response \in Responses({JsonList(instances)}) :
        LET inst == get_instance(response, params.name)
        IN  /\ calls' = Append(calls, Call("list", "-", Listed(response)))
            /\ found' = inst
            /\ IF ~Truthy(inst)
               THEN FailJson(<<"Instance '" \o params.name \o "' not found", "">>)
               ELSE IF params.check_mode
               THEN ExecExitJson(TRUE, <<"", "check mode">>)
               ELSE Continue("creates")
    /\ UNCHANGED <<transport, instances, params, runs, prevPresent, instance,
                   changed, last_status, target, elapsed, sleeps, waited>>
    /\ UNCHANGED <<transportVars, execVars>>

\* one check_path_exists(api_client, instance_id, path): the POST of
\* `test -e '<path>'` to the exec endpoint and what execute_command makes of it
CheckPath(guard, path, response) ==
    /\ calls' = Append(calls, Call("test_" \o guard, found.id,
                                   response.status_code = 200))
    /\ last_response' = response
    /\ xres' = execute_command(response)
    /\ exists' = [exists EXCEPT ![guard] =
                     PyBool(check_path_exists(execute_command(response)))]

\* a `creates` guard that tests the path and goes on whatever the answer
CheckCreatesWithoutSkip ==
    /\ pc = "creates"
    /\ IF params.creates = None
       THEN UNCHANGED <<calls, last_response, xres, exists>>
       ELSE \E response \in ExecResponses(TestE(params.creates)) :
                CheckPath("creates", params.creates, response)
    /\ Continue("removes")
    /\ UNCHANGED <<transport, instances, params, runs, prevPresent, instance, found,
                   changed, last_status, target, elapsed, sleeps, waited>>
    /\ UNCHANGED <<curl, paths>>

\* if creates and check_path_exists(api_client, instance_id, creates):
\*     exit_json(changed=False, msg="... already exists")
CheckCreates ==
    /\ pc = "creates"
    /\ IF params.creates = None
       THEN /\ Continue("removes")
            /\ UNCHANGED <<calls, last_response, xres, exists>>
       ELSE \E response \in ExecResponses(TestE(params.creates)) :
            /\ CheckPath("creates", params.creates, response)
            /\ IF check_path_exists(execute_command(response))
               THEN ExecExitJson(FALSE, <<params.creates, " already exists">>)
               ELSE Continue("removes")
    /\ UNCHANGED <<transport, instances, params, runs, prevPresent, instance, found,
                   changed, last_status, target, elapsed, sleeps, waited>>
    /\ UNCHANGED <<curl, paths>>

\* if removes and not check_path_exists(api_client, instance_id, removes):
\*     exit_json(changed=False, msg="... does not exist")
CheckRemoves ==
    /\ pc = "removes"
    /\ IF params.removes = None
       THEN /\ Continue("command")
            /\ UNCHANGED <<calls, last_response, xres, exists>>
       ELSE \E response \in ExecResponses(TestE(params.removes)) :
            /\ CheckPath("removes", params.removes, response)
            /\ IF ~check_path_exists(execute_command(response))
               THEN ExecExitJson(FALSE, <<params.removes, " does not exist">>)
               ELSE Continue("command")
    /\ UNCHANGED <<transport, instances, params, runs, prevPresent, instance, found,
                   changed, last_status, target, elapsed, sleeps, waited>>
    /\ UNCHANGED <<curl, paths>>

\* result = execute_command(api_client, instance_id, command, ...); a result
\* with a return code other than 0 is escalated to fail_json
RunCommand ==
    /\ pc = "command"
    /\ \E ret \in ReturnCodes :
       \E response \in ExecResponses(ret) :
        /\ calls' = Append(calls, Call("command", found.id,
                                       response.status_code = 200))
        /\ last_response' = response
        /\ xres' = execute_command(response)
        /\ IF execute_command(response).rc = 0
           THEN ExecExitJson(TRUE, NoMsg)
           ELSE FailJson(<<"Command failed: ", execute_command(response).stderr>>)
    /\ UNCHANGED <<transport, instances, params, runs, prevPresent, instance, found,
                   changed, last_status, target, elapsed, sleeps, waited>>
    /\ UNCHANGED <<curl, paths, exists>>

NextExec ==
    \/ GetInstanceId
    \/ CheckCreates
    \/ CheckRemoves
    \/ RunCommand

SpecExec == InitExec /\ [][NextExec]_vars

----------------------------------------------------------------------------
(* Runs whose calls return: main is one sequential thread, and each of its *)
(* steps is a blocking call that comes back or a sleep that ends           *)

\* a step of the run itself
RunStep ==
    \/ Construct
    \/ Lookup
    \/ Create
    \/ AutoStart
    \/ DeleteStop
    \/ Delete
    \/ Start
    \/ Stop
    \/ Restart
    \/ WaitPoll
    \/ WaitTimeout

LiveSpec == Spec /\ WF_vars(RunStep)

----------------------------------------------------------------------------
(* Reading a run off the state *)

\* the initial get_instance has returned
Looked == found # NotLooked

IsMutating(c) == c.op \in Mutating

MutCalls == SelectSeq(calls, IsMutating)

\* the mutating calls of the run, in order, as <<operation, instance id>>
MutOps == [i \in 1..Len(MutCalls) |-> <<MutCalls[i].op, MutCalls[i].id>>]

\* lookups made by the poller
Polls == Len(calls) - Len(MutCalls) - 1

NeedsInstance == {"started", "stopped", "restarted"}

\* what a check-mode run reports on the same desired state and lookup result
CheckModeRun(state, inst) == MainBranch(state, inst, TRUE)

----------------------------------------------------------------------------
(* Claims *)

\* C1: in check mode a run issues no mutating call (create, start, stop,
\* restart, delete) and never polls, whatever the desired state and the lookup
\* result; its only backend call is the one GET of the instance collection.
C1_CheckModeOnlyLooksUp ==
    params.check_mode =>
        /\ MutCalls = << >>
        /\ pc \in {"init", "lookup", "exit", "fail"}
        /\ sleeps = 0
        /\ waited = "none"
        /\ Len(calls) <= 1
        /\ Looked => (Len(calls) = 1 /\ calls[1].op = "list" /\ IsTerminal(pc))

C1_Witness ==
    /\ params.check_mode
    /\ params.state = "absent"
    /\ Truthy(found)
    /\ pc = "exit"
    /\ result.changed
    /\ calls = <<Call("list", "-", TRUE)>>

\* C2: a non-check run that reaches exit_json reports the `changed` a
\* check-mode run reports on the same desired state and lookup result (which
\* then does not fail); and a check-mode run that has looked the instance up
\* ends in fail_json exactly when the state is started / stopped / restarted
\* and the instance is absent.
C2_CheckModeAgreesOnChanged ==
    Looked =>
        /\ (~params.check_mode /\ pc = "exit") =>
              /\ CheckModeRun(params.state, found).pc = "exit"
              /\ result.changed = CheckModeRun(params.state, found).changed
        /\ (params.check_mode /\ pc = "exit") =>
              result.changed = CheckModeRun(params.state, found).changed
        /\ params.check_mode =>
              /\ IsTerminal(pc)
              /\ (pc = "fail") <=> (params.state \in NeedsInstance /\ ~Truthy(found))

C2_Witness ==
    /\ ~params.check_mode
    /\ params.state = "restarted"
    /\ pc = "exit"
    /\ result.changed
    /\ CheckModeRun(params.state, found) = Go("exit", TRUE)

\* the lifecycle call and the status that `started` / `stopped` aim at
Action(state) == IF state = "started" THEN "start" ELSE "stop"
Wanted(state) == IF state = "started" THEN "Running" ELSE "Stopped"

\* wait_for_state(name, wanted, timeout) ran after the lifecycle call: it has
\* returned, every lookup it made began before the timeout had elapsed, and
\* it returned False only once the timeout had
PolledFor(wanted) ==
    /\ waited \in {"True", "False"}
    /\ target = wanted
    /\ Polls >= 0
    /\ Polls > 0 => (Polls - 1) * PollInterval < params.timeout
    /\ waited = "True" => Polls > 0
    /\ waited = "False" => elapsed >= params.timeout

NotPolled == Polls = 0 /\ waited = "none" /\ sleeps = 0

\* C3 as stated: started (stopped), non-check, instance present: a status
\* other than Running (Stopped) gives exactly one start (stop) call for the
\* instance id, then polling, and changed=true; the wanted status gives no
\* mutating call, no polling and changed=false.
C3_AsStated ==
    (/\ params.state \in {"started", "stopped"}
     /\ ~params.check_mode
     /\ Looked /\ Truthy(found)
     /\ IsTerminal(pc)) =>
        IF Status(found) # Wanted(params.state)
        THEN /\ MutOps = << <<Action(params.state), found.id>> >>
             /\ PolledFor(Wanted(params.state))
             /\ pc = "exit" /\ result.changed
        ELSE /\ MutOps = << >>
             /\ NotPolled
             /\ pc = "exit" /\ ~result.changed

\* C3 amended: as stated, where the polling and changed=true follow when the
\* start (stop) call is accepted (status in {200, 202, 409}); a rejected call
\* is still the run's only mutating call, and the run then ends in fail_json
\* without polling.
C3_StartStopWhenStatusDiffers ==
    (/\ params.state \in {"started", "stopped"}
     /\ ~params.check_mode
     /\ Looked /\ Truthy(found)
     /\ IsTerminal(pc)) =>
        IF Status(found) # Wanted(params.state)
        THEN /\ MutOps = << <<Action(params.state), found.id>> >>
             /\ IF last_status \in {200, 202, 409}
                THEN /\ PolledFor(Wanted(params.state))
                     /\ pc = "exit" /\ result.changed
                ELSE /\ NotPolled
                     /\ pc = "fail"
        ELSE /\ MutOps = << >>
             /\ NotPolled
             /\ pc = "exit" /\ ~result.changed

C3_Witness ==
    /\ params.state = "started"
    /\ ~params.check_mode
    /\ Truthy(found) /\ Status(found) = "Starting"
    /\ MutOps = << <<"start", found.id>> >>
    /\ Polls = 2
    /\ waited = "True"
    /\ pc = "exit" /\ result.changed

\* C4 as stated: absent, non-check: a present instance, whatever its status,
\* gives exactly [stop(id), delete(id)] and changed=true; an absent one gives
\* no mutating call and changed=false.
C4_AsStated ==
    (/\ params.state = "absent"
     /\ ~params.check_mode
     /\ Looked
     /\ IsTerminal(pc)) =>
        IF Truthy(found)
        THEN /\ MutOps = << <<"stop", found.id>>, <<"delete", found.id>> >>
             /\ pc = "exit" /\ result.changed
        ELSE /\ MutOps = << >>
             /\ pc = "exit" /\ ~result.changed

\* C4 amended: as stated, where delete(id) follows stop(id) when the stop call
\* is accepted and changed=true is reported when the delete call is accepted
\* too; a rejected stop is the only mutating call, and a rejected stop or
\* delete ends the run in fail_json.
C4_StopThenDelete ==
    (/\ params.state = "absent"
     /\ ~params.check_mode
     /\ Looked
     /\ IsTerminal(pc)) =>
        IF Truthy(found)
        THEN /\ Len(MutOps) >= 1
             /\ MutOps[1] = <<"stop", found.id>>
             /\ IF ~MutCalls[1].ok
                THEN Len(MutOps) = 1 /\ pc = "fail"
                ELSE /\ MutOps = << <<"stop", found.id>>, <<"delete", found.id>> >>
                     /\ IF last_status \in {200, 204}
                        THEN pc = "exit" /\ result.changed
                        ELSE pc = "fail"
        ELSE /\ MutOps = << >>
             /\ pc = "exit" /\ ~result.changed

C4_Witness ==
    /\ params.state = "absent"
    /\ ~params.check_mode
    /\ Truthy(found) /\ Status(found) = "Stopped"
    /\ MutOps = << <<"stop", found.id>>, <<"delete", found.id>> >>
    /\ pc = "exit" /\ result.changed

\* C5: started / stopped / restarted with the lookup returning absent ends in
\* fail_json("Instance <name> does not exist"), in check mode and out of it,
\* with no mutating call, no polling and no result record.
C5_MissingInstanceIsFatal ==
    (Looked /\ params.state \in NeedsInstance /\ ~Truthy(found)) =>
        /\ pc = "fail"
        /\ msg = <<"Instance ", params.name, " does not exist">>
        /\ MutCalls = << >>
        /\ Len(calls) = 1
        /\ NotPolled
        /\ result = NoResult

C5_Witness ==
    /\ params.state = "restarted"
    /\ ~params.check_mode
    /\ Looked /\ ~Truthy(found)
    /\ instances # << >>
    /\ pc = "fail"
    /\ msg = <<"Instance ", "web", " does not exist">>

\* C6 as stated: a `present` run that follows a completed `present` run, with
\* no change to the backend in between, issues no mutating call and reports
\* changed=false; and `present` with the instance looked up present is a
\* no-op with changed=false.
C6_AsStated ==
    /\ (/\ prevPresent \in {"real", "check"}
        /\ params.state = "present"
        /\ Looked
        /\ IsTerminal(pc)) =>
            (MutCalls = << >> /\ pc = "exit" /\ ~result.changed)
    /\ (params.state = "present" /\ Looked /\ Truthy(found)) =>
            (MutCalls = << >> /\ pc = "exit" /\ ~result.changed)

\* C6 amended: the first run is a non-check run, and the second run's lookup
\* obtains the instance collection (status 200 and a body that parses); then
\* the second run finds the instance, and `present` with the instance found
\* is a no-op that reports changed=false and the found record.
C6_PresentIsIdempotent ==
    /\ (/\ prevPresent = "real"
        /\ params.state = "present"
        /\ Looked
        /\ calls[1].ok) => Truthy(found)
    /\ (params.state = "present" /\ Looked /\ Truthy(found)) =>
            /\ Len(calls) = 1
            /\ pc = "exit"
            /\ ~result.changed
            /\ result.instance = found

C6_Witness ==
    /\ runs = 2
    /\ prevPresent = "real"
    /\ params.state = "present"
    /\ ~params.check_mode
    /\ calls = <<Call("list", "-", TRUE)>>
    /\ instances = <<[id |-> "1", name |-> "web", status |-> "Stopped"]>>
    /\ pc = "exit"
    /\ ~result.changed

\* the id of the instance the backend created in this run
CreatedId == instances[Len(instances)].id

\* `present`, non-check, instance absent, and the create call accepted
Created ==
    /\ params.state = "present"
    /\ ~params.check_mode
    /\ Looked /\ ~Truthy(found)
    /\ Len(MutCalls) >= 1
    /\ MutCalls[1].ok
    /\ IsTerminal(pc)

AutostartTrue == ~params.config.isNone /\ params.config.autostart = "true"

\* C7 as stated: with boot.autostart "true", whenever the create call is
\* accepted the mutating calls are exactly [create, start(created id)] and the
\* run reports changed=true.
C7_AsStated ==
    (Created /\ AutostartTrue) =>
        /\ MutOps = << <<"create", "-">>, <<"start", CreatedId>> >>
        /\ pc = "exit" /\ result.changed

\* C7 amended: when the accepted create's response carries the created
\* record, the mutating calls are exactly [create, start(created id)], and the
\* run reports changed=true if the start is accepted and ends in fail_json if
\* it is rejected; when the response body is empty or does not parse, create is
\* the only mutating call and the run reports changed=true.
C7_CreateThenAutoStart ==
    (Created /\ AutostartTrue) =>
        IF Truthy(instance)
        THEN /\ MutOps = << <<"create", "-">>, <<"start", CreatedId>> >>
             /\ IF last_status \in {200, 202, 409}
                THEN pc = "exit" /\ result.changed /\ result.instance.id = CreatedId
                ELSE pc = "fail"
        ELSE /\ MutOps = << <<"create", "-">> >>
             /\ pc = "exit" /\ result.changed

C7_Witness ==
    /\ Created /\ AutostartTrue
    /\ MutOps = << <<"create", "-">>, <<"start", "2">> >>
    /\ instances[2].id = "2"
    /\ pc = "exit" /\ result.changed

\* C8: `present`, non-check, instance absent, boot.autostart not "true" or no
\* config at all: when the create call is accepted it is the run's only
\* mutating call, and the run ends in exit_json with changed=true.
C8_AsStated ==
    (Created /\ ~AutostartTrue) =>
        /\ MutOps = << <<"create", "-">> >>
        /\ pc = "exit" /\ result.changed

\* C9 as stated: restarted, non-check, instance present: exactly one restart
\* call for the instance id whatever its status, then polling for Running,
\* and changed=true.
C9_AsStated ==
    (/\ params.state = "restarted"
     /\ ~params.check_mode
     /\ Looked /\ Truthy(found)
     /\ IsTerminal(pc)) =>
        /\ MutOps = << <<"restart", found.id>> >>
        /\ PolledFor("Running")
        /\ pc = "exit" /\ result.changed

\* C9 amended: as stated, where the polling and changed=true follow when the
\* restart call is accepted (status in {200, 202}); when it is rejected the
\* run ends in fail_json without polling.
C9_RestartWhateverTheStatus ==
    (/\ params.state = "restarted"
     /\ ~params.check_mode
     /\ Looked /\ Truthy(found)
     /\ IsTerminal(pc)) =>
        /\ MutOps = << <<"restart", found.id>> >>
        /\ IF last_status \in {200, 202}
           THEN /\ PolledFor("Running")
                /\ pc = "exit" /\ result.changed
           ELSE /\ NotPolled
                /\ pc = "fail"

C9_Witness ==
    /\ params.state = "restarted"
    /\ ~params.check_mode
    /\ Truthy(found) /\ Status(found) = "Running"
    /\ MutOps = << <<"restart", found.id>> >>
    /\ waited = "True"
    /\ pc = "exit" /\ result.changed

\* the latest mutating call of the run
LastMut == MutCalls[Len(MutCalls)]

\* C10: start and stop succeed (return True, no fail_json) exactly on a
\* status in {200, 202, 409}; restart succeeds exactly on {200, 202}, so a 409
\* answer to restart is a fatal error.
C10_AcceptedStatuses ==
    Len(MutCalls) > 0 =>
        /\ LastMut.op \in {"start", "stop"} =>
              /\ (pc # "fail") <=> (last_status \in {200, 202, 409})
              /\ (pc # "fail") <=> LastMut.ok
        /\ LastMut.op = "restart" =>
              /\ (pc # "fail") <=> (last_status \in {200, 202})
              /\ last_status = 409 =>
                    msg = <<"Failed to restart instance: ", msg[2]>>
        /\ (LastMut.op \in {"start", "stop", "restart"} /\ pc # "fail"
              /\ params.state \in NeedsInstance) => changed
        /\ (LastMut.op = "start" /\ pc = "fail") =>
              msg = <<"Failed to start instance: ", msg[2]>>

C10_Witness ==
    /\ params.state = "started"
    /\ Len(MutCalls) = 1
    /\ LastMut.op = "start"
    /\ last_status = 409
    /\ pc = "exit"
    /\ result.changed

\* the latest mutating call of the run was rejected
Rejected == Len(MutCalls) > 0 /\ ~LastMut.ok

\* the run ended with its latest backend call, the rejected one
EndedByRejection ==
    /\ pc = "fail"
    /\ result = NoResult
    /\ calls[Len(calls)] = LastMut
    /\ \A i \in 1..(Len(MutCalls) - 1) : MutCalls[i].ok
    /\ msg[1] = "Failed to " \o LastMut.op \o " instance: "

\* C11: a create, start, stop, restart or delete call that is answered with a
\* status outside its accepted set ends the run in fail_json, whose message
\* embeds the text of that response, and the rejected call is the last backend
\* call of the run: after a rejected stop inside delete no DELETE is sent,
\* after a rejected create no start, after a rejected start / stop / restart
\* no polling lookup.
C11_RejectedCallEndsTheRun ==
    /\ [](Rejected =>
            /\ EndedByRejection
            /\ (params.state = "absent" /\ LastMut.op = "stop") =>
                  MutOps = << <<"stop", found.id>> >>
            /\ LastMut.op = "create" => MutOps = << <<"create", "-">> >>
            /\ params.state \in NeedsInstance =>
                  (Len(calls) = 2 /\ NotPolled))
    /\ [][(Len(MutCalls') = Len(MutCalls) + 1 /\ ~LastMut'.ok) =>
            \E response \in Responses({EmptyJson}) :
                /\ response.status_code = last_status'
                /\ msg' = <<"Failed to " \o LastMut'.op \o " instance: ",
                            response.text>>]_vars

C11_Witness ==
    /\ params.state = "absent"
    /\ transport = "curl"
    /\ MutOps = << <<"stop", "1">> >>
    /\ last_status = 500
    /\ pc = "fail"
    /\ msg = <<"Failed to stop instance: ", "<html>">>

\* the collection holds an instance named params.name whose status is the
\* poller's target, ahead of any other of that name
TargetListed ==
    \E i \in 1..Len(instances) :
        /\ instances[i].name = params.name
        /\ instances[i].status = target
        /\ \A j \in 1..(i - 1) : instances[j].name # params.name

\* this step is one lookup of wait_for_state
PollStep == pc = "wait" /\ Len(calls') = Len(calls) + 1

\* C12: wait_for_state returns True exactly when one of its lookups returned
\* an instance whose status is the target, and it stops at that lookup without
\* sleeping; after every other lookup (other status, instance absent, lookup
\* failed) it sleeps once, for 2 seconds; it returns False once the elapsed
\* time has reached the timeout without a match.
C12_WaitForState ==
    /\ [][PollStep =>
            /\ elapsed < params.timeout
            /\ calls'[Len(calls')].op = "list"
            /\ IF calls'[Len(calls')].ok /\ TargetListed
               THEN /\ waited' = "True"
                    /\ sleeps' = sleeps
                    /\ elapsed' - elapsed \in LookupCosts
                    /\ pc' = "exit"
               ELSE /\ waited' = "none"
                    /\ sleeps' = sleeps + 1
                    /\ (elapsed' - elapsed) - 2 \in LookupCosts
                    /\ pc' = "wait"]_vars
    /\ [][(waited = "none" /\ waited' = "True") => PollStep]_vars
    /\ [][(waited = "none" /\ waited' = "False") =>
            /\ pc = "wait"
            /\ elapsed >= params.timeout
            /\ <<calls, sleeps, elapsed>>' = <<calls, sleeps, elapsed>>
            /\ pc' = "exit"]_vars
    /\ [](/\ waited = "True" => (Polls >= 1 /\ sleeps = Polls - 1)
          /\ waited = "False" => (sleeps = Polls /\ elapsed >= params.timeout)
          /\ pc = "wait" => (waited = "none" /\ sleeps = Polls)
          /\ elapsed >= 2 * sleeps)

C12_Witness ==
    /\ waited = "True"
    /\ target = "Stopped"
    /\ Polls = 2
    /\ sleeps = 1
    /\ elapsed = 3
    /\ calls[2].ok
    /\ pc = "exit"

\* the first lookup of the poller, had it been made now, reports the target
FirstLookupWouldMatch == Polls = 0 /\ TargetListed

\* C13: whatever the timeout (0 included), wait_for_state makes at least one
\* lookup before it returns, and it returns True when that first lookup
\* reports the target status.
C13_AsStated ==
    /\ [](waited \in {"True", "False"} => Polls >= 1)
    /\ [][(pc = "wait" /\ FirstLookupWouldMatch /\ waited' # "none") =>
            (PollStep /\ (calls'[Len(calls')].ok => waited' = "True"))]_vars

\* C14: started / stopped / restarted, non-check, lifecycle call accepted:
\* when wait_for_state returns False the run still ends in exit_json with
\* changed=true, and no fail_json and no exception.
C14_PollTimeoutIsNotFatal ==
    /\ [](waited = "False" =>
            /\ params.state \in NeedsInstance
            /\ ~params.check_mode
            /\ Len(MutCalls) = 1 /\ LastMut.ok
            /\ pc = "exit"
            /\ result.changed
            /\ result.instance = found
            /\ msg = NoMsg
            /\ exc = None)
    /\ [][(pc = "wait" /\ elapsed >= params.timeout /\ instances' = instances) =>
            (waited' = "False" /\ pc' = "exit" /\ result'.changed)]_vars

C14_Witness ==
    /\ waited = "False"
    /\ params.state = "restarted"
    /\ params.timeout = MaxTimeout
    /\ Polls = 2
    /\ pc = "exit"
    /\ result.changed
    /\ msg = NoMsg

\* this step is the initial get_instance of main
LookupStep == pc = "lookup" /\ pc' # "lookup"

\* C16: get_instance issues exactly one GET of the instance collection and
\* returns the first element, in list order, whose name is the queried one
\* (with duplicate names the first wins); it returns None when the list call
\* does not deliver the collection (status other than 200) and when no element
\* has the name; it never returns an element of another name.
C16_FirstMatchWins ==
    /\ [][LookupStep =>
            /\ calls' = Append(calls, calls'[Len(calls')])
            /\ calls'[Len(calls')].op = "list"
            /\ IF calls'[Len(calls')].ok
                    /\ \E i \in 1..Len(instances) : instances[i].name = params.name
               THEN \E i \in 1..Len(instances) :
                        /\ found' = instances[i]
                        /\ instances[i].name = params.name
                        /\ \A j \in 1..(i - 1) : instances[j].name # params.name
               ELSE found' = EmptyDict]_vars
    /\ [](Looked => (found = EmptyDict \/ found.name = params.name))

C16_Witness ==
    /\ Looked
    /\ Len(instances) = 2
    /\ instances[1].name = "web" /\ instances[2].name = "web"
    /\ instances[1].status # instances[2].status
    /\ found = instances[1]
    /\ Len(calls) = 1

\* C17: when api_key is missing (None) or empty, the run ends in fail_json
\* with the configuration error before any backend call, whatever the desired
\* state: no lookup, no mutating call, no result record.
C17_NoKeyNoCall ==
    params.api_key \in {None, ""} =>
        /\ pc \in {"init", "fail"}
        /\ calls = << >>
        /\ ~Looked
        /\ result = NoResult
        /\ exc = None
        /\ pc = "fail" => msg = <<"api_key is required for REST API access", "">>
        /\ pc = "init" => msg = NoMsg

C17_Witness ==
    /\ params.api_key = ""
    /\ params.state = "absent"
    /\ instances # << >>
    /\ instances[1].name = params.name
    /\ pc = "fail"
    /\ msg[1] = "api_key is required for REST API access"
    /\ calls = << >>

\* an accepted mutating call of the run was followed by a rejected one
RejectedAfterAccepted ==
    \E i, j \in 1..Len(MutCalls) : i < j /\ MutCalls[i].ok /\ ~MutCalls[j].ok

\* C20: when a run has had a mutating call accepted and a later call of the
\* same run is rejected (create accepted, then the automatic start rejected;
\* stop accepted, then the DELETE rejected), the run ends in fail_json with the
\* rejected call as its last backend call: no delete or stop of the created
\* instance and no start of the stopped one follows, and the created instance
\* stays in the backend's collection.
C20_NoRollback ==
    RejectedAfterAccepted =>
        /\ pc = "fail"
        /\ result = NoResult
        /\ Len(MutCalls) = 2
        /\ calls = <<calls[1], MutCalls[1], MutCalls[2]>>
        /\ \/ /\ MutOps = << <<"create", "-">>, <<"start", instance.id>> >>
              /\ ~Truthy(found)
              /\ instances # << >>
              /\ instances[Len(instances)] = instance
              /\ instance.name = params.name
              /\ msg[1] = "Failed to start instance: "
           \/ /\ MutOps = << <<"stop", found.id>>, <<"delete", found.id>> >>
              /\ msg[1] = "Failed to delete instance: "

C20_Witness ==
    /\ RejectedAfterAccepted
    /\ MutOps = << <<"create", "-">>, <<"start", "2">> >>
    /\ Len(instances) = 2
    /\ instances[2] = [id |-> "2", name |-> "web", status |-> "Stopped"]
    /\ last_status = 500
    /\ pc = "fail"

\* the call was a connection-level failure: curl ended with an exit code
\* other than 0 and 22
ConnectionFailure == curl # NoCurl /\ curl.rc \notin {0, 22}

\* C15: RestApiClient.call returns a response for every exit code and output
\* of curl, and its status_code is defined; a connection-level failure (an
\* exit code other than 0 and 22) gives a status_code of at least 500, which
\* no lifecycle function accepts and which makes the lookup return None, as a
\* rejection by the backend does.
C15_TransportNeverRaises ==
    curl # NoCurl =>
        /\ last_response.status_code \in {200, 400, 401, 403, 404, 409, 500}
        /\ last_response.text \in {curl.stdout, curl.stderr}
        /\ ConnectionFailure =>
              /\ last_response.status_code >= 500
              /\ ~create_accepted(last_response.status_code)
              /\ ~delete_accepted(last_response.status_code)
              /\ ~start_accepted(last_response.status_code)
              /\ ~stop_accepted(last_response.status_code)
              /\ ~restart_accepted(last_response.status_code)
              /\ get_instance(last_response, "web") = EmptyDict

C15_Witness ==
    /\ curl = [rc |-> 7, stdout |-> "", stderr |-> "curl: (7) connection refused"]
    /\ last_response.status_code = 500
    /\ last_response.text = "curl: (7) connection refused"

\* the latest backend call of the exec run
LastCall == calls[Len(calls)]

\* the exec endpoint has answered, and not with status 200
ExecFailed == last_response # NoResponse /\ last_response.status_code # 200

\* C19: when the exec endpoint answers with a status other than 200,
\* execute_command returns a made-up result: return code 1, empty stdout, and
\* the text of the response as stderr; so check_path_exists returns True
\* exactly when the `test -e` command ran and returned 0, and False when the
\* exec call itself failed.
C19_FailedExecIsReturnCodeOne ==
    last_response # NoResponse =>
        /\ ExecFailed =>
              xres = [rc |-> 1, stdout |-> "", stderr |-> last_response.text]
        /\ ~ExecFailed =>
              xres = [rc |-> last_response.json.ret,
                      stdout |-> last_response.json.stdout,
                      stderr |-> last_response.json.stderr]
        /\ \A g \in {"creates", "removes"} :
              LastCall.op = "test_" \o g =>
                  /\ exists[g] = "True" <=>
                        (~ExecFailed /\ last_response.json.ret = 0)
                  /\ exists[g] = "True" => params[g] \in paths
                  /\ ExecFailed => exists[g] = "False"

C19_Witness ==
    /\ Len(calls) = 2
    /\ LastCall.op = "test_creates"
    /\ last_response.status_code = 500
    /\ last_response.text = "<html>"
    /\ "/made" \in paths
    /\ xres = [rc |-> 1, stdout |-> "", stderr |-> "<html>"]
    /\ exists.creates = "False"

\* the user's command was sent to the exec endpoint
CommandSent == \E i \in 1..Len(calls) : calls[i].op = "command"

\* the run ended in exit_json(changed=False) with the message for the guard
Skipped(path, why) ==
    /\ pc = "exit"
    /\ ~result.changed
    /\ result.msg = <<path, why>>
    /\ ~CommandSent

CreatesExists == params.creates # None /\ params.creates \in paths
RemovesMissing == params.removes # None /\ params.removes \notin paths

\* a non-check run of the exec module that has found its instance and ended
ExecRunEnded ==
    /\ ~params.check_mode
    /\ found # NotLooked /\ Truthy(found)
    /\ IsTerminal(pc)

\* C18 as stated, for a run that has found its instance: when the `creates`
\* path is configured and exists, or the `removes` path is configured and
\* does not exist, the command is never sent to the exec endpoint and the run
\* ends with changed=false and the message "already exists" / "does not
\* exist"; the command is sent only when no configured guard triggers a skip.
C18_AsStated ==
    /\ (found # NotLooked /\ Truthy(found) /\ ~params.check_mode
          /\ (CreatesExists \/ RemovesMissing)) => ~CommandSent
    /\ ExecRunEnded =>
          /\ CreatesExists => Skipped(params.creates, " already exists")
          /\ (~CreatesExists /\ RemovesMissing) =>
                Skipped(params.removes, " does not exist")

\* C18 amended: the guards go by what check_path_exists reports.  When it
\* reports that the configured `creates` path exists, or that the configured
\* `removes` path does not exist, the command is never sent and the run ends
\* with changed=false and the message "already exists" / "does not exist";
\* otherwise the command is sent.  A reported existence is a real one; a
\* `test -e` call that fails is reported as a missing path, so an existing
\* `creates` path then does not stop the command, and an existing `removes`
\* path is then reported as missing.
C18_GuardsSkipTheCommand ==
    /\ CommandSent =>
          /\ params.creates # None => exists.creates = "False"
          /\ params.removes # None => exists.removes = "True"
    /\ exists.creates = "True" => params.creates \in paths
    /\ exists.removes = "True" => params.removes \in paths
    /\ ExecRunEnded =>
          IF params.creates # None /\ exists.creates = "True"
          THEN /\ Skipped(params.creates, " already exists")
               /\ Len(calls) = 2
          ELSE IF params.removes # None /\ exists.removes = "False"
          THEN Skipped(params.removes, " does not exist")
          ELSE /\ CommandSent
               /\ LastCall.op = "command"
               /\ pc = "exit" => result.changed

C18_Witness ==
    /\ ExecRunEnded
    /\ params.creates = None
    /\ params.removes = "/lock"
    /\ "/lock" \notin paths
    /\ exists.removes = "False"
    /\ last_response.status_code = 200
    /\ Skipped("/lock", " does not exist")

\* the first mutating operation the transition table gives for a desired
\* state and a looked-up instance; "none" where the table has a no-op
FirstOp(state, inst) ==
    CASE state = "present" /\ ~Truthy(inst) -> "create"
      [] state = "absent" /\ Truthy(inst) -> "stop"
      [] state = "started" /\ Truthy(inst) /\ Status(inst) # "Running" -> "start"
      [] state = "stopped" /\ Truthy(inst) /\ Status(inst) # "Stopped" -> "stop"
      [] state = "restarted" /\ Truthy(inst) -> "restart"
      [] OTHER -> "none"

\* the mutating calls of a run, as a function of the desired state, the
\* looked-up instance, the check-mode flag, the autostart flag and the backend's
\* answers (which calls were accepted, and the record the create call returned)
OpsOf(state, inst, check_mode, autostart, oks, created) ==
    IF check_mode \/ FirstOp(state, inst) = "none" THEN << >>
    ELSE IF state = "present"
    THEN IF oks # << >> /\ oks[1] /\ autostart /\ Truthy(created)
         THEN << <<"create", "-">>, <<"start", created.id>> >>
         ELSE << <<"create", "-">> >>
    ELSE IF state = "absent"
    THEN IF oks # << >> /\ oks[1]
         THEN << <<"stop", inst.id>>, <<"delete", inst.id>> >>
         ELSE << <<"stop", inst.id>> >>
    ELSE << <<FirstOp(state, inst), inst.id>> >>

\* the outcome of the run, as a function of the same
OutcomeOf(state, inst, check_mode, oks) ==
    IF state \in NeedsInstance /\ ~Truthy(inst) THEN Go("fail", FALSE)
    ELSE IF FirstOp(state, inst) = "none" THEN Go("exit", FALSE)
    ELSE IF check_mode THEN Go("exit", TRUE)
    ELSE IF \A i \in 1..Len(oks) : oks[i] THEN Go("exit", TRUE)
    ELSE Go("fail", FALSE)

\* the backend's answers to the run's mutating calls: accepted or not
Oks == [i \in 1..Len(MutCalls) |-> MutCalls[i].ok]

\* C21: the mutating calls of a run and its outcome (exit_json with `changed`,
\* or fail_json) are a function of the desired state, the looked-up instance,
\* the check-mode flag, the autostart flag and the backend's answers: every
\* ended run has the calls and the outcome that function gives, so two runs
\* that agree on these issue the same calls and report the same result.
C21_AsStated ==
    (Looked /\ IsTerminal(pc)) =>
        /\ MutOps = OpsOf(params.state, found, params.check_mode, AutostartTrue,
                          Oks, instance)
        /\ pc = OutcomeOf(params.state, found, params.check_mode, Oks).pc
        /\ pc = "exit" =>
              result.changed =
                  OutcomeOf(params.state, found, params.check_mode, Oks).changed

\* the initial list call did not deliver the collection
ListFailed == Looked /\ ~calls[1].ok

\* an instance of the run's name is on the backend
OnBackend == \E i \in 1..Len(instances) : instances[i].name = params.name

\* what every run does when its initial list call fails although the instance
\* is on the backend: the lookup step, and `absent` / started / stopped /
\* restarted at the end of the run
AbsentToTheRun ==
    /\ [][(LookupStep /\ ~calls'[1].ok /\ OnBackend) =>
            /\ found' = EmptyDict
            /\ params.state \in NeedsInstance =>
                  /\ pc' = "fail"
                  /\ msg' = <<"Instance ", params.name, " does not exist">>
            /\ params.state = "absent" =>
                  /\ pc' = "exit"
                  /\ ~result'.changed
                  /\ result'.instance = EmptyDict]_vars
    /\ [](ListFailed =>
            /\ found = EmptyDict
            /\ params.state # "present" => (Len(calls) = 1 /\ IsTerminal(pc)))

\* C22 as stated: when the initial GET of the collection fails while an
\* instance of the name is on the backend, `present` issues a create call,
\* `absent` issues no call and reports changed=false, and started / stopped /
\* restarted end in the "does not exist" fatal error.
C22_AsStated ==
    /\ AbsentToTheRun
    /\ []((ListFailed /\ params.state = "present" /\ IsTerminal(pc)) =>
            (Len(MutOps) >= 1 /\ MutOps[1] = <<"create", "-">>))

\* C22 amended: as stated, where `present` issues the create call in a
\* non-check run; in check mode it issues no call and reports changed=true.
C22_FailedListIsAbsence ==
    /\ AbsentToTheRun
    /\ [][(LookupStep /\ ~calls'[1].ok /\ OnBackend /\ params.state = "present") =>
            IF params.check_mode
            THEN pc' = "exit" /\ result'.changed
            ELSE pc' = "create"]_vars
    /\ []((ListFailed /\ params.state = "present" /\ IsTerminal(pc)) =>
            IF params.check_mode
            THEN Len(calls) = 1
            ELSE Len(MutOps) >= 1 /\ MutOps[1] = <<"create", "-">>)

C22_Witness ==
    /\ transport = "mock"
    /\ ListFailed
    /\ params.state = "present"
    /\ ~params.check_mode
    /\ Len(instances) = 2
    /\ instances[1].name = "web" /\ instances[2].name = "web"
    /\ MutOps = << <<"create", "-">> >>
    /\ LastMut.ok
    /\ pc = "exit"

\* the run has ended in fail_json or in exit_json, and in one of them only
OneOutcome ==
    \/ pc = "fail" /\ msg # NoMsg /\ result = NoResult /\ exc = None
    \/ pc = "exit" /\ msg = NoMsg /\ result.changed \in BOOLEAN /\ exc = None

\* C23: every run ends, and ends with exactly one outcome: one fail_json or
\* one exit_json with `changed`, whatever the desired state, the lookup
\* result, the parameters and the backend's answers; and wait_for_state
\* returns no later than one poll interval plus one lookup after the timeout
\* has elapsed.
C23_AsStated ==
    /\ [](IsTerminal(pc) => OneOutcome)
    /\ [](waited # "none" =>
            \E cost \in LookupCosts :
                elapsed <= params.timeout + PollInterval + cost)
    /\ (~IsTerminal(pc)) ~> IsTerminal(pc)

\* the first of 404, 401, 403, 409, 500 that curl's stderr contains, else 400
FirstInStderr ==
    CHOOSE sc \in {404, 401, 403, 409, 500, 400} :
        LET order == <<404, 401, 403, 409, 500>>
            codes == <<"404", "401", "403", "409", "500">>
            hits == { i \in 1..5 : InStderr(codes[i], curl.stderr) }
        IN  IF hits = {} THEN sc = 400
            ELSE \E i \in hits : sc = order[i] /\ \A j \in hits : i <= j

\* C24: the status_code of a response is one of 200, 400, 401, 403, 404, 409,
\* 500 and depends on curl's exit code and stderr only: exit 0 gives 200; exit
\* 22 the first of 404, 401, 403, 409, 500 found in stderr, else 400; any other
\* exit 500.  So 201, 202 and 204 never come out of the transport, and a
\* lifecycle function accepts a response of the transport exactly when the
\* status is 200, or 409 for start and stop.
C24_TransportStatuses ==
    curl # NoCurl =>
        LET sc == last_response.status_code
        IN  /\ sc \in {200, 400, 401, 403, 404, 409, 500}
            /\ sc = (IF curl.rc = 0 THEN 200
                     ELSE IF curl.rc = 22 THEN FirstInStderr
                     ELSE 500)
            /\ sc \notin {201, 202, 204}
            /\ create_accepted(sc) <=> sc = 200
            /\ delete_accepted(sc) <=> sc = 200
            /\ restart_accepted(sc) <=> sc = 200
            /\ start_accepted(sc) <=> sc \in {200, 409}
            /\ stop_accepted(sc) <=> sc \in {200, 409}

C24_Witness ==
    /\ curl.rc = 22
    /\ curl.stderr = "curl: (22) error: 403 (was 401)"
    /\ curl.stdout = "<json>"
    /\ last_response.status_code = 401
    /\ ~start_accepted(last_response.status_code)

\* C25: the record a started / stopped / restarted run returns is the one its
\* initial lookup obtained, not one fetched after the action: when the run has
\* issued its call and the poller has seen the target status on the backend,
\* the returned record still carries the status from before the call, so a
\* `started` (`stopped`) run with changed=true returns a status other than
\* Running (Stopped).
C25_ReturnsTheLookedUpRecord ==
    (params.state \in NeedsInstance /\ pc = "exit") =>
        /\ result.instance = found
        /\ waited = "True" =>
              /\ TargetListed
              /\ Len(MutCalls) = 1
              /\ result.changed
              /\ params.state \in {"started", "stopped"} =>
                    result.instance.status # target
        /\ (params.state = "started" /\ result.changed) =>
              result.instance.status # "Running"
        /\ (params.state = "stopped" /\ result.changed) =>
              result.instance.status # "Stopped"

C25_Witness ==
    /\ params.state = "started"
    /\ pc = "exit"
    /\ waited = "True"
    /\ MutOps = << <<"start", "1">> >>
    /\ instances[1] = [id |-> "1", name |-> "web", status |-> "Running"]
    /\ result = [changed |-> TRUE,
                 instance |-> [id |-> "1", name |-> "web", status |-> "Stopped"]]

====
